---- MODULE Spec2Model ----
(***************************************************************************)
(* Model of chandra/model/hf.py: load_model, process_batch_element and     *)
(* generate_hf.                                                            *)
(*                                                                         *)
(* Strings are sequences of symbols, token ids are positions in Vocab,     *)
(* images are records [w, h, page] where page is the text printed on the   *)
(* page (what an OCR model reads off it).  Python's None for an optional   *)
(* argument is the empty sequence <<>>, a given value v is <<v>>.          *)
(***************************************************************************)
EXTENDS Integers, Sequences, FiniteSets, TLC

VARIABLES settings, cuda_available, model, op, batch, batch_after, messages,
          bbox_scale_used, inputs, max_new_tokens, generate_invoked,
          generated_ids, results, outcome

vars == <<settings, cuda_available, model, op, batch, batch_after, messages,
          bbox_scale_used, inputs, max_new_tokens, generate_invoked,
          generated_ids, results, outcome>>

\* ---------------------------------------------------------------- bounds
\* Largest batch handed to generate_hf.
MaxBatch == 2
\* settings.MAX_OUTPUT_TOKENS, the default token budget (kept small).
MAX_OUTPUT_TOKENS == 3

\* ---------------------------------------------------------------- helpers
Min(a, b) == IF a < b THEN a ELSE b
Max(a, b) == IF a > b THEN a ELSE b

RECURSIVE Repeat(_, _)
Repeat(x, n) == IF n <= 0 THEN <<>> ELSE <<x>> \o Repeat(x, n - 1)

RECURSIVE Concat(_)
Concat(ss) == IF ss = <<>> THEN <<>> ELSE Head(ss) \o Concat(Tail(ss))

Take(s, n) == SubSeq(s, 1, Min(n, Len(s)))

\* str(n) for a Python int: its decimal digits, with a sign when negative.
Digits == <<"0", "1", "2", "3", "4", "5", "6", "7", "8", "9">>

RECURSIVE StrNat(_)
StrNat(n) ==
    IF n < 10 THEN <<Digits[n + 1]>>
    ELSE StrNat(n \div 10) \o <<Digits[(n % 10) + 1]>>

Str(n) == IF n < 0 THEN <<"-">> \o StrNat(0 - n) ELSE StrNat(n)

\* str.replace(old, new): every non-overlapping occurrence, left to right.
RECURSIVE Replace(_, _, _)
Replace(s, old, new) ==
    IF Len(s) < Len(old) THEN s
    ELSE IF SubSeq(s, 1, Len(old)) = old
         THEN new \o Replace(SubSeq(s, Len(old) + 1, Len(s)), old, new)
         ELSE <<s[1]>> \o Replace(Tail(s), old, new)

\* The literal "{bbox_scale}".
PLACEHOLDER == <<"{", "bbox_scale", "}">>

\* chandra.prompts.PROMPT_MAPPING: prompt_type -> template holding the
\* "{bbox_scale}" placeholder.
PROMPT_MAPPING ==
    [ocr_layout |-> <<"layout", "{", "bbox_scale", "}", "to", "{", "bbox_scale", "}">>,
     ocr        |-> <<"ocr", "{", "bbox_scale", "}">>]

\* chandra.model.util.scale_to_fit(image, max_size): shrink, never enlarge,
\* so that the image fits in max_size, keeping the aspect ratio (rounded
\* down, at least one pixel); an image that already fits is returned as is.
ScaleToFit(image, max_size) ==
    LET mw == max_size[1]
        mh == max_size[2]
    IN  IF image.w <= mw /\ image.h <= mh THEN image
        ELSE IF image.w * mh >= image.h * mw
             THEN [image EXCEPT !.w = mw,
                                !.h = Max(1, (image.h * mw) \div image.w)]
             ELSE [image EXCEPT !.w = Max(1, (image.w * mh) \div image.h),
                                !.h = mh]

\* max_size=(1536, 1024) of process_batch_element.
MAX_SIZE == <<1536, 1024>>

\* ------------------------------------------------- process_batch_element
NoMessage == [role |-> "none", content |-> <<>>]

\* Prompt resolution that hands out the template as registered.
ResolvePromptNoReplace(item, bbox_scale) ==
    IF item.prompt # <<>> THEN item.prompt
    ELSE PROMPT_MAPPING[item.prompt_type]

\* Lines 58-62: "if not prompt" is true of None and of the empty string.
ResolvePrompt(item, bbox_scale) ==
    IF item.prompt # <<>> THEN item.prompt
    ELSE Replace(PROMPT_MAPPING[item.prompt_type], PLACEHOLDER, Str(bbox_scale))

\* Line 62 raises KeyError when the prompt_type has no template.
RaisesKeyError(item) ==
    item.prompt = <<>> /\ item.prompt_type \notin DOMAIN PROMPT_MAPPING

\* A message with its two blocks in the other order.
BuildMessageTextFirst(image, prompt) ==
    [role |-> "user",
     content |-> <<[type |-> "text", text |-> prompt],
                   [type |-> "image", image |-> image]>>]

\* Lines 64-69.
BuildMessage(image, prompt) ==
    [role |-> "user",
     content |-> <<[type |-> "image", image |-> image],
                   [type |-> "text", text |-> prompt]>>]

\* The image block of a message built without scale_to_fit.
ElementImageUnscaled(item) == item.image

\* Line 65.
ElementImage(item) == ScaleToFit(item.image, MAX_SIZE)

\* The whole call: whether it raised, the message returned, and the caller's
\* item object as the call leaves it.
ProcessBatchElement(item, processor, bbox_scale) ==
    IF RaisesKeyError(item)
    THEN [raised |-> TRUE, message |-> NoMessage, item |-> item]
    ELSE [raised |-> FALSE,
          message |-> BuildMessage(ElementImage(item),
                                   ResolvePrompt(item, bbox_scale)),
          item |-> item]

\* ------------------------------------------------------------ load_model
NoProcessor == [kind |-> "none", checkpoint |-> ""]

\* Qwen3VLProcessor.from_pretrained(checkpoint), line 109.
ProcessorFromPretrained(checkpoint) ==
    [kind |-> "Qwen3VLProcessor", checkpoint |-> checkpoint]

NoModel ==
    [loaded |-> FALSE, training |-> TRUE, processor |-> NoProcessor,
     device |-> "none", kwargs |-> <<>>]

\* A device map that ignores TORCH_DEVICE.
DeviceMapAlwaysAuto(s) == [kind |-> "auto"]

\* Lines 77-79: "auto", or the dict {"": TORCH_DEVICE} when a device is set
\* (an unset TORCH_DEVICE is the empty string here).
DeviceMap(s) ==
    IF s.TORCH_DEVICE # ""
    THEN [kind |-> "dict", all |-> s.TORCH_DEVICE]
    ELSE [kind |-> "auto"]

\* Line 86, in GiB: {0: "11GiB", "cpu": "60GiB"}.
MaxMemory == [gpu0 |-> 11, cpu |-> 60]

\* Lines 84-88.
BaseKwargs(s) ==
    ("device_map" :> DeviceMap(s))
    @@ ("max_memory" :> MaxMemory)
    @@ ("offload_state_dict" :> TRUE)

\* Lines 92-96.
QuantizationConfig ==
    [load_in_8bit |-> TRUE, llm_int8_threshold |-> 6,
     llm_int8_has_fp16_weight |-> FALSE]

\* A quantized path that keeps the default dtype request as well.
PrecisionKwargsKeepDefault(s, cuda) ==
    IF s.USE_8BIT_QUANTIZATION /\ cuda
    THEN ("quantization_config" :> QuantizationConfig)
         @@ ("torch_dtype" :> "float16") @@ ("dtype" :> "float32")
    ELSE ("dtype" :> "float32")

\* Lines 82 and 91-100.
PrecisionKwargs(s, cuda) ==
    IF s.USE_8BIT_QUANTIZATION /\ cuda
    THEN ("quantization_config" :> QuantizationConfig)
         @@ ("torch_dtype" :> "float16")
    ELSE ("dtype" :> "float32")

\* Lines 102-103.
AttnKwargs(s) ==
    IF s.TORCH_ATTN # "" THEN ("attn_implementation" :> s.TORCH_ATTN) ELSE <<>>

\* The keyword arguments handed to from_pretrained at line 105.
LoadKwargs(s, cuda) == BaseKwargs(s) @@ PrecisionKwargs(s, cuda) @@ AttnKwargs(s)

\* Where from_pretrained puts the weights that take the inputs: the pinned
\* device, or under "auto" the first accelerator when there is one.
PlacedDevice(device_map, cuda) ==
    IF device_map.kind = "dict" THEN device_map.all
    ELSE IF cuda THEN "cuda" ELSE "cpu"

\* from_pretrained fails when the weights are pinned to an accelerator the
\* host does not have.
FromPretrainedRaises(kwargs, cuda) ==
    /\ kwargs["device_map"].kind = "dict"
    /\ kwargs["device_map"].all = "cuda"
    /\ ~cuda

\* Qwen3VLForConditionalGeneration.from_pretrained, lines 105-107; the mode
\* the library leaves the module in is the argument training.
FromPretrained(checkpoint, kwargs, cuda, training) ==
    [loaded |-> TRUE, training |-> training, processor |-> NoProcessor,
     device |-> PlacedDevice(kwargs["device_map"], cuda), kwargs |-> kwargs]

\* model.eval(), line 108.
Eval(m) == [m EXCEPT !.training = FALSE]

\* A loader that returns the model without attaching the processor.
LoadModelHandleNoProcessor(s, cuda, training) ==
    Eval(FromPretrained(s.MODEL_CHECKPOINT, LoadKwargs(s, cuda), cuda, training))

\* Lines 105-111: the handle load_model returns.
LoadModelHandle(s, cuda, training) ==
    LET m == Eval(FromPretrained(s.MODEL_CHECKPOINT, LoadKwargs(s, cuda),
                                 cuda, training))
        processor == ProcessorFromPretrained(s.MODEL_CHECKPOINT)
    IN  [m EXCEPT !.processor = processor]

\* ----------------------------------------------------- processor and model
\* The tokenizer's vocabulary; a token id is a position in it.
Vocab ==
    <<"<pad>", "<eos>", "<|im_start|>", "<|im_end|>", "<|vision_start|>",
      "<|image_pad|>", "<|vision_end|>", "user", "assistant", "layout", "ocr",
      "to", "{", "bbox_scale", "}", "describe", "-", "x", "y", "z">> \o Digits

SpecialTokens ==
    {"<pad>", "<eos>", "<|im_start|>", "<|im_end|>", "<|vision_start|>",
     "<|image_pad|>", "<|vision_end|>"}

TokenId(sym) == CHOOSE i \in DOMAIN Vocab : Vocab[i] = sym

Tokenize(text) == [i \in DOMAIN text |-> TokenId(text[i])]

IsSpecial(id) == Vocab[id] \in SpecialTokens

\* decode(ids, skip_special_tokens=True, clean_up_tokenization_spaces=False)
Decode(ids) ==
    LET kept == SelectSeq(ids, LAMBDA id : ~IsSpecial(id))
    IN  [i \in DOMAIN kept |-> Vocab[kept[i]]]

\* One turn of the chat template: the role, then the content blocks in order,
\* an image block as a vision placeholder.
RenderBlock(block) ==
    IF block.type = "image"
    THEN <<"<|vision_start|>", "<|image_pad|>", "<|vision_end|>">>
    ELSE block.text

RenderMessage(m) ==
    <<"<|im_start|>", m.role>>
    \o Concat([k \in DOMAIN m.content |-> RenderBlock(m.content[k])])
    \o <<"<|im_end|>">>

\* processor.apply_chat_template(messages, tokenize=False,
\* add_generation_prompt=True), lines 25-27.  The argument is a list of
\* message dicts, which the library takes as ONE conversation (a batch of
\* conversations is a list of lists): every message is rendered as a turn of
\* the same conversation and the value is a single string.
ApplyChatTemplate(conversation) ==
    Concat([i \in DOMAIN conversation |-> RenderMessage(conversation[i])])
    \o <<"<|im_start|>", "assistant">>

\* process_vision_info(messages), line 29: the images of the image blocks, in
\* the order of the messages.
BlockImages(m) ==
    LET blocks == SelectSeq(m.content, LAMBDA b : b.type = "image")
    IN  [k \in DOMAIN blocks |-> blocks[k].image]

ProcessVisionInfo(conversation) ==
    Concat([i \in DOMAIN conversation |-> BlockImages(conversation[i])])

\* Number of placeholder tokens an image takes: one per tile of 512 x 512.
ImageTokens(image) == ((image.w + 511) \div 512) * ((image.h + 511) \div 512)

\* The processor replaces the k-th image placeholder of a text by the
\* placeholder tokens of the k-th image.
RECURSIVE ExpandImagePads(_, _)
ExpandImagePads(text, images) ==
    IF text = <<>> THEN <<>>
    ELSE IF Head(text) = "<|image_pad|>"
         THEN Repeat("<|image_pad|>", ImageTokens(Head(images)))
              \o ExpandImagePads(Tail(text), Tail(images))
         ELSE <<Head(text)>> \o ExpandImagePads(Tail(text), images)

RECURSIVE MaxLen(_)
MaxLen(rows) ==
    IF rows = <<>> THEN 0 ELSE Max(Len(Head(rows)), MaxLen(Tail(rows)))

\* padding=True, padding_side="left": every row as long as the longest.
PadLeft(rows) ==
    [i \in DOMAIN rows |->
        Repeat(TokenId("<pad>"), MaxLen(rows) - Len(rows[i])) \o rows[i]]

PadRight(rows) ==
    [i \in DOMAIN rows |->
        rows[i] \o Repeat(TokenId("<pad>"), MaxLen(rows) - Len(rows[i]))]

NoInputs == [input_ids |-> <<>>, pixel_values |-> <<>>, device |-> "none"]

\* model.processor(text=text, images=image_inputs, padding=True,
\* return_tensors="pt", padding_side="left"), lines 30-36.  text is a single
\* string here, which the processor wraps into a list of one text: the
\* tensors have one row, holding the placeholders of every image.
Processor(text, images) ==
    LET texts == <<text>>
        rows  == [i \in DOMAIN texts |->
                     Tokenize(ExpandImagePads(texts[i], images))]
    IN  [input_ids |-> PadLeft(rows), pixel_values |-> images,
         device |-> "cpu"]

\* inputs.to(device), line 37.
To(ins, device) == [ins EXCEPT !.device = device]

\* What the model reads off the images of its input: the text of the pages,
\* in order, then the end-of-sequence token.
Reply(ins) ==
    Tokenize(Concat([k \in DOMAIN ins.pixel_values |-> ins.pixel_values[k].page]))
    \o <<TokenId("<eos>")>>

\* model.generate(**inputs, max_new_tokens=budget), line 40: each row is its
\* input row followed by at most budget new tokens; rows that end early are
\* padded on the right to the length of the longest.
Generate(ins, budget) ==
    PadRight([i \in DOMAIN ins.input_ids |->
                 ins.input_ids[i] \o Take(Reply(ins), budget)])

\* ---------------------------------------------------------- generate_hf
\* Lines 19-20.
Budget(max_output_tokens) ==
    IF max_output_tokens = <<>> THEN MAX_OUTPUT_TOKENS ELSE max_output_tokens[1]

\* A trim that leaves the prompt in.
TrimGeneratedKeepPrompt(input_ids, gen_ids) ==
    [i \in 1..Min(Len(input_ids), Len(gen_ids)) |-> gen_ids[i]]

\* Lines 41-44: zip stops at the shorter of the two.
TrimGenerated(input_ids, gen_ids) ==
    [i \in 1..Min(Len(input_ids), Len(gen_ids)) |->
        SubSeq(gen_ids[i], Len(input_ids[i]) + 1, Len(gen_ids[i]))]

\* Lines 45-49.
BatchDecode(rows) == [i \in DOMAIN rows |-> Decode(rows[i])]

\* A result record that flags an empty output as an error.
GenerationResultFlagEmpty(out, ids) ==
    [raw |-> out, token_count |-> Len(ids), error |-> (out = <<>>)]

\* Line 51.
GenerationResult(out, ids) ==
    [raw |-> out, token_count |-> Len(ids), error |-> FALSE]

\* Lines 50-53.
BuildResults(output_text, trimmed) ==
    [i \in 1..Min(Len(output_text), Len(trimmed)) |->
        GenerationResult(output_text[i], trimmed[i])]

\* ------------------------------------------------------------- inputs
\* settings: TORCH_DEVICE and TORCH_ATTN are "" when unset.
Settings ==
    [MODEL_CHECKPOINT : {"checkpoint"},
     TORCH_DEVICE : {"", "cuda", "cpu"},
     USE_8BIT_QUANTIZATION : BOOLEAN,
     TORCH_ATTN : {"", "sdpa"}]

BboxScales == {0, 7, 1024}

\* Items for direct calls of process_batch_element: image sizes on both sides
\* of the caps, no prompt / a prompt / a prompt that spells the placeholder,
\* registered and unregistered prompt types.
ElementItems ==
    [image : [w : {1, 1000, 1536, 1537, 3072, 5000},
              h : {1, 700, 1024, 1025, 2048, 4000},
              page : {<<"x">>}],
     prompt : {<<>>, <<"describe">>, PLACEHOLDER},
     prompt_type : {"ocr", "ocr_layout", "table"}]

\* Items for generate_hf.
SmallPage == [w |-> 800, h |-> 600, page |-> <<"x">>]
LargePage == [w |-> 3072, h |-> 2048, page |-> <<"y", "z">>]
BlankPage == [w |-> 1536, h |-> 1024, page |-> <<>>]

BatchItems ==
    {[image |-> SmallPage, prompt |-> <<"describe">>, prompt_type |-> "ocr"],
     [image |-> LargePage, prompt |-> <<>>, prompt_type |-> "ocr_layout"],
     [image |-> BlankPage, prompt |-> <<>>, prompt_type |-> "ocr"],
     [image |-> SmallPage, prompt |-> <<>>, prompt_type |-> "table"]}

\* Non-empty batches of at most MaxBatch items.
Batches == UNION {[1..n -> BatchItems] : n \in 1..MaxBatch}

\* max_output_tokens: omitted, or a cap of one token.
MaxOutputTokenArgs == {<<>>, <<1>>}

\* ------------------------------------------------------------- actions
Init ==
    /\ settings \in Settings
    /\ cuda_available \in BOOLEAN
    /\ model = NoModel
    /\ op = "idle"
    /\ batch = <<>>
    /\ batch_after = <<>>
    /\ messages = <<>>
    /\ bbox_scale_used = 0
    /\ inputs = NoInputs
    /\ max_new_tokens = 0
    /\ generate_invoked = FALSE
    /\ generated_ids = <<>>
    /\ results = <<>>
    /\ outcome = "none"

\* A call of load_model(); from_pretrained may fail (checkpoint not found,
\* device not present), and then no handle is returned.
LoadModel ==
    \E found \in BOOLEAN, training \in BOOLEAN :
        /\ op = "idle"
        /\ op' = "load_model"
        /\ IF found /\ ~FromPretrainedRaises(LoadKwargs(settings, cuda_available),
                                             cuda_available)
           THEN /\ model' = LoadModelHandle(settings, cuda_available, training)
                /\ outcome' = "returned"
           ELSE /\ model' = model
                /\ outcome' = "raised"
        /\ batch' = <<>>
        /\ batch_after' = <<>>
        /\ messages' = <<>>
        /\ bbox_scale_used' = 0
        /\ inputs' = NoInputs
        /\ max_new_tokens' = 0
        /\ generate_invoked' = FALSE
        /\ generated_ids' = <<>>
        /\ results' = <<>>
        /\ UNCHANGED <<settings, cuda_available>>

\* A call of process_batch_element(item, processor, bbox_scale).
ProcessBatchElementCall ==
    \E item \in ElementItems, bbox_scale \in BboxScales :
        LET r == ProcessBatchElement(item, model.processor, bbox_scale)
        IN  /\ op = "idle"
            /\ op' = "process_batch_element"
            /\ batch' = <<item>>
            /\ batch_after' = <<r.item>>
            /\ bbox_scale_used' = bbox_scale
            /\ messages' = IF r.raised THEN <<>> ELSE <<r.message>>
            /\ outcome' = IF r.raised THEN "raised" ELSE "returned"
            /\ inputs' = NoInputs
            /\ max_new_tokens' = 0
            /\ generate_invoked' = FALSE
            /\ generated_ids' = <<>>
            /\ results' = <<>>
            /\ UNCHANGED <<settings, cuda_available, model>>

\* A call of generate_hf(batch, model, max_output_tokens, bbox_scale) on a
\* handle obtained from load_model.  out_of_memory: generation itself fails.
GenerateHf ==
    \E b \in Batches, max_output_tokens \in MaxOutputTokenArgs,
       bbox_scale \in BboxScales, out_of_memory \in BOOLEAN :
        LET budget == Budget(max_output_tokens)
            elems == [i \in DOMAIN b |->
                         ProcessBatchElement(b[i], model.processor, bbox_scale)]
            key_error == \E i \in DOMAIN b : elems[i].raised
            msgs == [i \in DOMAIN b |-> elems[i].message]
            text == ApplyChatTemplate(msgs)
            image_inputs == ProcessVisionInfo(msgs)
            on_host == Processor(text, image_inputs)
            on_cuda == To(on_host, "cuda")
            gen_raises == out_of_memory \/ model.device # on_cuda.device
            gen_ids == Generate(on_cuda, budget)
            trimmed == TrimGenerated(on_cuda.input_ids, gen_ids)
            output_text == BatchDecode(trimmed)
        IN  /\ op = "idle"
            /\ model.loaded
            /\ op' = "generate_hf"
            /\ batch' = b
            /\ batch_after' = [i \in DOMAIN b |-> elems[i].item]
            /\ bbox_scale_used' = bbox_scale
            /\ max_new_tokens' = budget
            /\ IF key_error
               THEN \* line 23 raises
                    /\ messages' = <<>>
                    /\ inputs' = NoInputs
                    /\ generate_invoked' = FALSE
                    /\ generated_ids' = <<>>
                    /\ results' = <<>>
                    /\ outcome' = "raised"
               ELSE IF ~cuda_available
               THEN \* line 37 raises: there is no "cuda" device
                    /\ messages' = msgs
                    /\ inputs' = on_host
                    /\ generate_invoked' = FALSE
                    /\ generated_ids' = <<>>
                    /\ results' = <<>>
                    /\ outcome' = "raised"
               ELSE IF gen_raises
               THEN \* line 40 raises
                    /\ messages' = msgs
                    /\ inputs' = on_cuda
                    /\ generate_invoked' = TRUE
                    /\ generated_ids' = <<>>
                    /\ results' = <<>>
                    /\ outcome' = "raised"
               ELSE /\ messages' = msgs
                    /\ inputs' = on_cuda
                    /\ generate_invoked' = TRUE
                    /\ generated_ids' = gen_ids
                    /\ results' = BuildResults(output_text, trimmed)
                    /\ outcome' = "returned"
            /\ UNCHANGED <<settings, cuda_available, model>>

\* The call is over: its arguments, locals and return value are dropped by
\* the caller; the handle stays.
Return ==
    /\ op # "idle"
    /\ op' = "idle"
    /\ batch' = <<>>
    /\ batch_after' = <<>>
    /\ messages' = <<>>
    /\ bbox_scale_used' = 0
    /\ inputs' = NoInputs
    /\ max_new_tokens' = 0
    /\ generate_invoked' = FALSE
    /\ generated_ids' = <<>>
    /\ results' = <<>>
    /\ outcome' = "none"
    /\ UNCHANGED <<settings, cuda_available, model>>

Next == LoadModel \/ ProcessBatchElementCall \/ GenerateHf \/ Return

Spec == Init /\ [][Next]_vars

\* ------------------------------------------------------------- claims
Returned(name) == op = name /\ outcome = "returned"

\* The image and the text of a message, wherever its blocks stand.
ImageOf(m) == SelectSeq(m.content, LAMBDA b : b.type = "image")[1].image
TextOf(m) == SelectSeq(m.content, LAMBDA b : b.type = "text")[1].text

\* What the model reads off one item alone, within the budget.
OwnText(item, budget) ==
    Decode(Take(Tokenize(item.image.page) \o <<TokenId("<eos>")>>, budget))

Occurs(old, s) ==
    \E k \in 1..(Len(s) - Len(old) + 1) : SubSeq(s, k, k + Len(old) - 1) = old

Abs(n) == IF n < 0 THEN 0 - n ELSE n

\* C1: whenever generate_hf returns on a non-empty batch, it returns exactly
\* len(batch) results, and the i-th message, input row, generated row and
\* decoded text are those of batch[i].
C1_OneResultPerItemInOrder ==
    Returned("generate_hf") =>
        /\ Len(results) = Len(batch)
        /\ Len(inputs.input_ids) = Len(batch)
        /\ Len(generated_ids) = Len(batch)
        /\ \A i \in DOMAIN batch :
              /\ messages[i] = ProcessBatchElement(batch[i], model.processor,
                                                   bbox_scale_used).message
              /\ results[i].raw = OwnText(batch[i], max_new_tokens)

\* C2: the text block is the item's own prompt when one is given, whatever
\* the prompt_type; without one it is the template of the prompt_type with
\* every "{bbox_scale}" replaced by str(bbox_scale), which is not the template.
C2_PromptResolved ==
    \A i \in DOMAIN messages :
        LET item == batch[i]
            text == TextOf(messages[i])
        IN  /\ item.prompt # <<>> => text = item.prompt
            /\ item.prompt = <<>> =>
                  /\ text = Replace(PROMPT_MAPPING[item.prompt_type],
                                    PLACEHOLDER, Str(bbox_scale_used))
                  /\ ~Occurs(PLACEHOLDER, text)
                  /\ Occurs(Str(bbox_scale_used), text)
                  /\ text # PROMPT_MAPPING[item.prompt_type]

C2_Witness ==
    /\ Returned("process_batch_element")
    /\ batch[1].prompt = <<>>
    /\ batch[1].prompt_type = "ocr_layout"
    /\ bbox_scale_used = 1024
    /\ TextOf(messages[1]) =
          <<"layout", "1", "0", "2", "4", "to", "1", "0", "2", "4">>

\* C3: the image in the message is at most 1536 wide and 1024 high; an image
\* within the caps is passed on unchanged, a larger one is shrunk with its
\* aspect ratio kept up to rounding, and no side ever grows.
C3_ImageCapped ==
    \A i \in DOMAIN messages :
        LET orig == batch[i].image
            img == ImageOf(messages[i])
        IN  /\ img.w <= 1536 /\ img.h <= 1024
            /\ img.w <= orig.w /\ img.h <= orig.h
            /\ img.w >= 1 /\ img.h >= 1
            /\ (orig.w <= 1536 /\ orig.h <= 1024) => img = orig
            /\ Abs(img.w * orig.h - img.h * orig.w) <= Max(orig.w, orig.h)
            /\ (orig.w > 1536 \/ orig.h > 1024) => (img.w = 1536 \/ img.h = 1024)
            /\ img.page = orig.page

C3_Witness ==
    /\ Returned("process_batch_element")
    /\ batch[1].image.w = 5000 /\ batch[1].image.h = 2048
    /\ ImageOf(messages[1]).w = 1536 /\ ImageOf(messages[1]).h = 629

\* C4: every result's token_count is the length of its generated row minus
\* the length of its input row, raw is decoded from exactly those trailing
\* tokens, and they hold no prompt token, no padding and at most
\* max_new_tokens tokens.
C4_TokenCountIsTrimmedLength ==
    Returned("generate_hf") =>
        /\ Len(results) = Len(generated_ids)
        /\ \A i \in DOMAIN results :
              LET in_ids == inputs.input_ids[i]
                  out_ids == generated_ids[i]
                  new_ids == SubSeq(out_ids, Len(in_ids) + 1, Len(out_ids))
              IN  /\ results[i].token_count = Len(out_ids) - Len(in_ids)
                  /\ SubSeq(out_ids, 1, Len(in_ids)) = in_ids
                  /\ results[i].raw = Decode(new_ids)
                  /\ results[i].token_count <= max_new_tokens
                  /\ \A k \in DOMAIN new_ids : new_ids[k] # TokenId("<pad>")

C4_Witness ==
    /\ Returned("generate_hf")
    /\ Len(batch) = 2
    /\ Len(inputs.input_ids[1]) > 10
    /\ results[1].token_count = 3
    /\ results[1].raw = <<"x", "y", "z">>

\* C5: the arguments of from_pretrained carry the quantization config and
\* the float16 torch_dtype exactly when USE_8BIT_QUANTIZATION is set and an
\* accelerator is available, and the float32 dtype otherwise; never both.
C5_QuantizationExcludesFloat32 ==
    model.loaded =>
        LET k == model.kwargs
            quantized == settings.USE_8BIT_QUANTIZATION /\ cuda_available
        IN  /\ quantized =>
                  /\ "quantization_config" \in DOMAIN k
                  /\ k["quantization_config"].load_in_8bit
                  /\ "torch_dtype" \in DOMAIN k
                  /\ k["torch_dtype"] = "float16"
                  /\ "dtype" \notin DOMAIN k
            /\ ~quantized =>
                  /\ "dtype" \in DOMAIN k
                  /\ k["dtype"] = "float32"
                  /\ "quantization_config" \notin DOMAIN k
                  /\ "torch_dtype" \notin DOMAIN k
            /\ Cardinality({"dtype", "torch_dtype"} \cap DOMAIN k) = 1

C5_Witness ==
    /\ Returned("load_model")
    /\ settings.USE_8BIT_QUANTIZATION
    /\ "quantization_config" \in DOMAIN model.kwargs

\* C6: no result carries error = true; a call that raised returned nothing;
\* and a call in which any step fails for any item raises.
C6_NoPartialFailure ==
    /\ \A i \in DOMAIN results : results[i].error = FALSE
    /\ outcome = "raised" => results = <<>>
    /\ op = "generate_hf" =>
          /\ (\E i \in DOMAIN batch : RaisesKeyError(batch[i])) => outcome = "raised"
          /\ ~cuda_available => outcome = "raised"
          /\ (generate_invoked /\ inputs.device # model.device) => outcome = "raised"
          /\ outcome \in {"raised", "returned"}

C6_Witness ==
    /\ op = "generate_hf"
    /\ outcome = "raised"
    /\ Len(batch) = 2
    /\ ~RaisesKeyError(batch[1])
    /\ RaisesKeyError(batch[2])
    /\ results = <<>>

\* C7: with TORCH_DEVICE set, every weight is pinned to it; without it the
\* placement is automatic, with 11 GiB for the accelerator, a larger ceiling
\* for host memory and state-dict offloading.
C7_DevicePlacement ==
    model.loaded =>
        LET k == model.kwargs
        IN  /\ settings.TORCH_DEVICE # "" =>
                  /\ k["device_map"] = [kind |-> "dict", all |-> settings.TORCH_DEVICE]
                  /\ model.device = settings.TORCH_DEVICE
            /\ settings.TORCH_DEVICE = "" =>
                  /\ k["device_map"] = [kind |-> "auto"]
                  /\ k["max_memory"].gpu0 = 11
                  /\ k["max_memory"].cpu > k["max_memory"].gpu0
                  /\ k["offload_state_dict"] = TRUE

C7_Witness ==
    /\ Returned("load_model")
    /\ settings.TORCH_DEVICE = "cpu"
    /\ model.kwargs["device_map"].kind = "dict"

\* C8: a handle returned by load_model is in evaluation mode with its
\* processor attached, and no call other than load_model changes the handle.
C8_HandleReady ==
    /\ [](model.loaded =>
            /\ ~model.training
            /\ model.processor = ProcessorFromPretrained(settings.MODEL_CHECKPOINT))
    /\ [][model.loaded /\ op' # "load_model" => model' = model]_vars

C8_Witness ==
    /\ Returned("generate_hf")
    /\ model.processor.kind = "Qwen3VLProcessor"
    /\ ~model.training

\* C9: whenever generation is invoked, the inputs are on the device the
\* loader placed the model on.
C9_InputsOnModelDevice ==
    generate_invoked => inputs.device = model.device

\* C10: the message has role "user" and exactly two blocks, the image block
\* with the resized image and then the text block with the resolved prompt;
\* the item is left as it was.
C10_MessageShape ==
    /\ \A i \in DOMAIN messages :
          LET m == messages[i]
          IN  /\ m.role = "user"
              /\ Len(m.content) = 2
              /\ m.content[1] = [type |-> "image",
                                 image |-> ScaleToFit(batch[i].image, MAX_SIZE)]
              /\ m.content[2] = [type |-> "text",
                                 text |-> ResolvePrompt(batch[i], bbox_scale_used)]
    /\ batch_after = batch

C10_Witness ==
    /\ Returned("process_batch_element")
    /\ batch[1].image.w = 3072
    /\ batch[1].prompt = <<"describe">>
    /\ messages[1].content[1].type = "image"
    /\ messages[1].content[2].text = <<"describe">>

====
